---- MODULE Spec2Model ----
(***************************************************************************)
(* The Asana "Create Task" form of the Raycast extension                   *)
(* (src/extensions/asana/src/components/CreateTaskForm.tsx).               *)
(*                                                                         *)
(* The state is the form's current values, the validation errors shown,    *)
(* the signature preference, the log of createTask calls that reached the  *)
(* network, the host's navigation stack, clipboard and focus, and one      *)
(* record per invocation of onSubmit (its `values` argument, its toast,    *)
(* the task its createTask call returned and where it stands); resets     *)
(* counts the calls of the form's reset().                                 *)
(*                                                                         *)
(* Strings are sequences of one-character strings, so that startsWith,     *)
(* split, concatenation and date formatting are computed, not assumed.     *)
(***************************************************************************)
EXTENDS Integers, Sequences, FiniteSets, TLC

VARIABLES form, errors, focused, signature, sub, calls, nav, clipboard, resets

vars == <<form, errors, focused, signature, sub, calls, nav, clipboard, resets>>

(* ------------------------------- bounds -------------------------------- *)

\* Concurrent or successive invocations of onSubmit that are followed.
MaxSubs == 2
\* Longest task description the user types.
MaxDescLen == 1

Subs == 1..MaxSubs

(* ------------------------------ strings -------------------------------- *)

EmptyStr == <<>>

RECURSIVE Repeat(_, _)
Repeat(c, n) == IF n = 0 THEN <<>> ELSE <<c>> \o Repeat(c, n - 1)

\* String.prototype.startsWith
StartsWith(s, p) == Len(s) >= Len(p) /\ SubSeq(s, 1, Len(p)) = p

\* String.prototype.split on a one-character separator: the segments between
\* the separators, in order (always at least one segment).
RECURSIVE SplitFrom(_, _, _)
SplitFrom(s, sep, cur) ==
    IF s = <<>> THEN <<cur>>
    ELSE IF Head(s) = sep THEN <<cur>> \o SplitFrom(Tail(s), sep, <<>>)
    ELSE SplitFrom(Tail(s), sep, Append(cur, Head(s)))

Split(s, sep) == SplitFrom(s, sep, <<>>)

\* JavaScript truthiness of a string, an array's "x && x.length > 0", or of an
\* optional identifier: the empty value is falsy.
Truthy(s) == s # <<>>

(* ---------------------------- the draft data --------------------------- *)

\* Identifiers the data hooks return (useWorkspaces, useProjects, useUsers).
WorkspaceW1 == <<"W", "1">>
ProjectP1 == <<"P", "1">>
UserU1 == <<"U", "1">>

\* gids of the custom fields of project P1 (its custom_field_settings); a gid
\* is an opaque string of the remote service.
CustomFieldGids == << <<"7">>, <<"7", "-", "2">> >>

FieldPrefix == <<"f", "i", "e", "l", "d", "-">>

\* id={`field-${field.gid}`}
FieldKey(gid) == FieldPrefix \o gid

\* The custom fields rendered for the selected projects (useMemo customFields).
RenderedGids(projects) ==
    IF \E k \in 1..Len(projects) : projects[k] = ProjectP1
    THEN CustomFieldGids
    ELSE <<>>

RenderedKeys(projects) ==
    { FieldKey(RenderedGids(projects)[k]) : k \in 1..Len(RenderedGids(projects)) }

\* A Date of the date picker, by its local calendar components; NoDate is null.
NoDate == [year |-> 0, month |-> 0, day |-> 0]
Dates == { [year |-> 2024, month |-> 5, day |-> 1],
           [year |-> 987, month |-> 12, day |-> 31] }

Workspaces == { EmptyStr, WorkspaceW1 }
Names == { EmptyStr, <<"N">> }
Descriptions == UNION { { Repeat("D", n) } : n \in 0..MaxDescLen }
ProjectLists == { <<>>, <<ProjectP1>> }
Assignees == { EmptyStr, UserU1 }
DueDates == { NoDate } \cup Dates
FieldValues == { EmptyStr, <<"v">> }

Drafts ==
    UNION { [ workspace : Workspaces, projects : {p}, name : Names,
              description : Descriptions, assignee : Assignees,
              due_date : DueDates,
              fields : [RenderedKeys(p) -> FieldValues] ] : p \in ProjectLists }

(* ------------------------ request construction ------------------------- *)

DigitChars == <<"0", "1", "2", "3", "4", "5", "6", "7", "8", "9">>

DigitChar(d) == DigitChars[d + 1]

RECURSIVE Digits(_)
Digits(n) == IF n < 10 THEN <<DigitChar(n)>>
             ELSE Digits(n \div 10) \o <<DigitChar(n % 10)>>

\* A number in decimal, left-padded with zeros to at least w characters.
Pad(n, w) ==
    LET ds == Digits(n)
    IN  IF Len(ds) >= w THEN ds ELSE Repeat("0", w - Len(ds)) \o ds

\* The format without zero padding ("y-M-d").
FormatDateUnpadded(d) == Digits(d.year) \o <<"-">> \o Digits(d.month) \o <<"-">> \o Digits(d.day)

\* format(date, "yyyy-MM-dd") of date-fns, on the local calendar components.
format(d) == Pad(d.year, 4) \o <<"-">> \o Pad(d.month, 2) \o <<"-">> \o Pad(d.day, 2)

BodyOpen == "<body>"
BodyClose == "</body>"
Separator == "\n--\n"
SignatureMarkup == "Created via <a href=\"https://www.raycast.com/?ref=signatureAsana\">Raycast</a>"

\* The notes with the signature appended directly after the description.
HtmlNotesNoSeparator(values, sig) ==
    <<BodyOpen>> \o values.description
    \o (IF sig THEN <<SignatureMarkup>> ELSE <<>>) \o <<BodyClose>>

\* let htmlNotes = `<body>${values.description}` ... htmlNotes += "</body>"
htmlNotes(values, sig) ==
    LET opened == <<BodyOpen>> \o values.description
        signed == IF sig
                  THEN (IF Truthy(values.description)
                        THEN opened \o <<Separator>>
                        ELSE opened) \o <<SignatureMarkup>>
                  ELSE opened
    IN  signed \o <<BodyClose>>

KeyWorkspace == <<"w", "o", "r", "k", "s", "p", "a", "c", "e">>
KeyProjects == <<"p", "r", "o", "j", "e", "c", "t", "s">>
KeyName == <<"n", "a", "m", "e">>
KeyDescription == <<"d", "e", "s", "c", "r", "i", "p", "t", "i", "o", "n">>
KeyAssignee == <<"a", "s", "s", "i", "g", "n", "e", "e">>
KeyDueDate == <<"d", "u", "e", "_", "d", "a", "t", "e">>

\* Object.entries(values): the form's own items, then the rendered custom
\* fields, each as <<key, value>>.
Entries(values) ==
    LET gids == RenderedGids(values.projects)
    IN  << <<KeyWorkspace, values.workspace>>,
           <<KeyProjects, values.projects>>,
           <<KeyName, values.name>>,
           <<KeyDescription, values.description>>,
           <<KeyAssignee, values.assignee>>,
           <<KeyDueDate, values.due_date>> >>
        \o [k \in 1..Len(gids) |->
              <<FieldKey(gids[k]), values.fields[FieldKey(gids[k])]>>]

\* ([key, value]) => key.startsWith("field-") && value !== ""
IsCustomFieldEntry(e) == StartsWith(e[1], FieldPrefix) /\ e[2] # EmptyStr

customFieldsEntries(values) == SelectSeq(Entries(values), IsCustomFieldEntry)

\* const fieldId = field[0].split("-")[1]
fieldId(key) == Split(key, "-")[2]

\* customFieldsEntries.reduce((acc, field) => ({ ...acc, [fieldId]: field[1] }), {})
RECURSIVE ReduceFields(_, _)
ReduceFields(entries, acc) ==
    IF Len(entries) = 0 THEN acc
    ELSE ReduceFields(Tail(entries),
                      (fieldId(Head(entries)[1]) :> Head(entries)[2]) @@ acc)

customFields(values) == ReduceFields(customFieldsEntries(values), <<>>)

\* The conditions of the four spread optional keys.
IncludeProjects(values) == Truthy(values.projects)
IncludeNotesAlways(values) == TRUE
IncludeNotes(values) == Truthy(values.description)
IncludeAssignee(values) == Truthy(values.assignee)
IncludeDueOn(values) == values.due_date # NoDate

\* The argument of createTask: the three fixed keys and the spread optional ones.
Request(values, sig) ==
    [ workspace |-> values.workspace,
      name |-> values.name,
      custom_fields |-> customFields(values) ]
    @@ (IF IncludeProjects(values) THEN [projects |-> values.projects] ELSE <<>>)
    @@ (IF IncludeNotes(values) THEN [html_notes |-> htmlNotes(values, sig)] ELSE <<>>)
    @@ (IF IncludeAssignee(values) THEN [assignee |-> values.assignee] ELSE <<>>)
    @@ (IF IncludeDueOn(values) THEN [due_on |-> format(values.due_date)] ELSE <<>>)

(* ------------------------------ validation ----------------------------- *)

\* A validation that requires the workspace only.
ValidateWorkspaceOnly(values) == IF Truthy(values.workspace) THEN {} ELSE {"workspace"}

\* validation: { workspace: Required, name: Required }: the fields in error.
validation(values) ==
    (IF Truthy(values.workspace) THEN {} ELSE {"workspace"})
    \cup (IF Truthy(values.name) THEN {} ELSE {"name"})

(* ------------------------- the remote service -------------------------- *)

\* The task the service creates for the k-th call it receives.
CreatedTask(k) ==
    [ gid |-> <<DigitChar(k)>>,
      permalink_url |-> <<"https://app.asana.com/0/0/", DigitChar(k)>> ]

NoTask == [ gid |-> EmptyStr, permalink_url |-> EmptyStr ]

\* What a failed createTask call throws.
Errors == { [kind |-> "Network", message |-> <<"connect ETIMEDOUT">>],
            [kind |-> "Rejected", message |-> <<"Invalid custom field">>] }

NoError == [kind |-> "None", message |-> EmptyStr]

getErrorMessage(error) == error.message

(* ------------------------------ submissions ---------------------------- *)

NoToast == [ style |-> "None", title |-> EmptyStr, message |-> EmptyStr,
             shown |-> FALSE, primaryAction |-> NoTask, secondaryAction |-> NoTask ]

BlankValues == [ workspace |-> EmptyStr, projects |-> <<>>, name |-> EmptyStr,
                 description |-> EmptyStr, assignee |-> EmptyStr,
                 due_date |-> NoDate, fields |-> <<>> ]

Idle == [ pc |-> "idle", values |-> BlankValues, toast |-> NoToast,
          task |-> NoTask, error |-> NoError ]

\* new Toast({ style: Toast.Style.Animated, title: "Creating task" })
CreatingToast == [NoToast EXCEPT !.style = "Animated", !.title = <<"Creating task">>]

\* The try block after createTask returned: the toast turns to success and
\* gets its two actions, whose closures hold the created task.
SuccessToast(toast, task) ==
    [toast EXCEPT !.style = "Success",
                  !.title = <<"Created task">>,
                  !.primaryAction = task,
                  !.secondaryAction = task]

\* A catch block that sets the title and the message but not the style.
FailureToastKeepsStyle(toast, error) ==
    [toast EXCEPT !.title = <<"Failed to create task">>,
                  !.message = getErrorMessage(error)]

\* The catch block.
FailureToast(toast, error) ==
    [toast EXCEPT !.style = "Failure",
                  !.title = <<"Failed to create task">>,
                  !.message = getErrorMessage(error)]

\* The positions in the call log of the calls invocation i made.
CallsBy(i) == { k \in 1..Len(calls) : calls[k].by = i }

Init ==
    /\ form \in Drafts
    /\ errors = {}
    /\ focused = "name"
    /\ signature \in BOOLEAN
    /\ sub = [i \in Subs |-> Idle]
    /\ calls = <<>>
    /\ nav = NoTask
    /\ clipboard = EmptyStr
    /\ resets = 0

\* handleSubmit with values that fail validation: the errors are shown and
\* onSubmit is not called.
RejectSubmit ==
    /\ validation(form) # {}
    /\ errors' = validation(form)
    /\ UNCHANGED <<form, focused, signature, sub, calls, nav, clipboard, resets>>

\* handleSubmit with valid values calls onSubmit(values), which creates the
\* animated toast and awaits toast.show(). Invocations are numbered in the
\* order they start.
handleSubmit(i) ==
    /\ sub[i].pc = "idle"
    /\ \A j \in Subs : j < i => sub[j].pc # "idle"
    /\ validation(form) = {}
    /\ sub' = [sub EXCEPT ![i] =
                 [ pc |-> "show", values |-> form, task |-> NoTask,
                   error |-> NoError, toast |-> CreatingToast ]]
    /\ UNCHANGED <<form, errors, focused, signature, calls, nav, clipboard, resets>>

\* The hook's current `values` (the form as it is now), which the parameter
\* of onSubmit shadows.
HookValues(i) == form

\* The `values` parameter of onSubmit: what handleSubmit passed to this
\* invocation (it shadows the hook's current `values`).
SubmittedValues(i) == sub[i].values

\* toast.show() resolves; the handler reads the preference, builds the request
\* and calls createTask, whose result it awaits.
SendRequest(i) ==
    /\ sub[i].pc = "show"
    /\ calls' = Append(calls, [by |-> i, request |-> Request(SubmittedValues(i), signature)])
    /\ sub' = [sub EXCEPT ![i].pc = "call", ![i].toast.shown = TRUE]
    /\ UNCHANGED <<form, errors, focused, signature, nav, clipboard, resets>>

\* A reset that leaves the due date in place.
ResetFormKeepsDueDate(f) == [f EXCEPT !.name = EmptyStr, !.description = EmptyStr]

\* reset({ name: "", description: "", due_date: null })
reset(f) == [f EXCEPT !.name = EmptyStr, !.description = EmptyStr, !.due_date = NoDate]

\* createTask resolves with the task the service created for this call.
Succeed(i) ==
    /\ sub[i].pc = "call"
    /\ \E k \in CallsBy(i) :
         sub' = [sub EXCEPT ![i].pc = "succeeded",
                            ![i].task = CreatedTask(k),
                            ![i].toast = SuccessToast(sub[i].toast, CreatedTask(k))]
    /\ form' = reset(form)
    /\ errors' = {}
    /\ resets' = resets + 1
    /\ focused' = "name"
    /\ UNCHANGED <<signature, calls, nav, clipboard>>

\* A handler that clears the form whether or not the call succeeded.
FailAndReset(i) ==
    /\ sub[i].pc = "call"
    /\ \E e \in Errors :
         sub' = [sub EXCEPT ![i].pc = "failed",
                            ![i].error = e,
                            ![i].toast = FailureToast(sub[i].toast, e)]
    /\ form' = [form EXCEPT !.name = EmptyStr, !.description = EmptyStr, !.due_date = NoDate]
    /\ UNCHANGED <<errors, focused, signature, calls, nav, clipboard, resets>>

\* A catch block that issues the call a second time before giving up.
FailAfterRetry(i) ==
    /\ sub[i].pc = "call"
    /\ calls' = Append(calls, [by |-> i, request |-> Request(sub[i].values, signature)])
    /\ \E e \in Errors :
         sub' = [sub EXCEPT ![i].pc = "failed",
                            ![i].error = e,
                            ![i].toast = FailureToast(sub[i].toast, e)]
    /\ UNCHANGED <<form, errors, focused, signature, nav, clipboard, resets>>

\* createTask rejects; the catch block turns the toast into a failure.
Fail(i) ==
    /\ sub[i].pc = "call"
    /\ \E e \in Errors :
         sub' = [sub EXCEPT ![i].pc = "failed",
                            ![i].error = e,
                            ![i].toast = FailureToast(sub[i].toast, e)]
    /\ UNCHANGED <<form, errors, focused, signature, calls, nav, clipboard, resets>>

\* The host shows one toast at a time: the one whose show() was called last.
\* Only its actions can be triggered.
Visible(i) == sub[i].pc # "idle" /\ \A j \in Subs : j > i => sub[j].pc = "idle"

\* The toast's primary action: push(<TaskDetail task={task} />); nav is the
\* task of the view on top of the navigation stack.
OpenTask(i) ==
    /\ Visible(i)
    /\ sub[i].toast.primaryAction # NoTask
    /\ nav # sub[i].toast.primaryAction
    /\ nav' = sub[i].toast.primaryAction
    /\ UNCHANGED <<form, errors, focused, signature, sub, calls, clipboard, resets>>

\* The toast's secondary action: copy the permalink and say so in the toast.
CopyTaskUrl(i) ==
    /\ Visible(i)
    /\ sub[i].toast.secondaryAction # NoTask
    /\ clipboard' = sub[i].toast.secondaryAction.permalink_url
    /\ sub' = [sub EXCEPT ![i].toast.title = <<"Copied to clipboard">>,
                          ![i].toast.message = sub[i].toast.secondaryAction.permalink_url]
    /\ UNCHANGED <<form, errors, focused, signature, calls, nav, resets>>

Next ==
    \/ RejectSubmit
    \/ \E i \in Subs : handleSubmit(i)
    \/ \E i \in Subs : SendRequest(i)
    \/ \E i \in Subs : Succeed(i)
    \/ \E i \in Subs : Fail(i)
    \/ \E i \in Subs : OpenTask(i)
    \/ \E i \in Subs : CopyTaskUrl(i)

Spec == Init /\ [][Next]_vars

(* --------------------- the user editing the draft ---------------------- *)

\* What the user types into the Description field while editing.
EditDescriptions == { EmptyStr, <<"D">> }

\* The drafts the editing sessions start from: a chosen workspace, no project,
\* nobody assigned, a due date picked.
EditDrafts ==
    { d \in Drafts : /\ d.workspace = WorkspaceW1
                      /\ d.projects = <<>>
                      /\ d.assignee = EmptyStr
                      /\ d.description \in EditDescriptions
                      /\ d.due_date = [year |-> 2024, month |-> 5, day |-> 1] }

InitEdit ==
    /\ Init
    /\ form \in EditDrafts

\* Typing in the Task Name field (itemProps.name): the value changes and the
\* field's validation error is cleared.
TypeName(n) ==
    /\ n # form.name
    /\ form' = [form EXCEPT !.name = n]
    /\ errors' = errors \ {"name"}
    /\ focused' = "name"
    /\ UNCHANGED <<signature, sub, calls, nav, clipboard, resets>>

\* Typing in the Description field (itemProps.description).
TypeDescription(d) ==
    /\ d # form.description
    /\ form' = [form EXCEPT !.description = d]
    /\ focused' = "description"
    /\ UNCHANGED <<errors, signature, sub, calls, nav, clipboard, resets>>

NextEdit ==
    \/ Next
    \/ \E n \in Names : TypeName(n)
    \/ \E d \in EditDescriptions : TypeDescription(d)

SpecEdit == InitEdit /\ [][NextEdit]_vars

(* ======================= properties of the request ===================== *)

\* The draft a logged call was made for: the values of the invocation that made it.
DraftOf(k) == sub[calls[k].by].values

HasKey(req, key) == key \in DOMAIN req

OccursIn(tok, str) == \E j \in 1..Len(str) : str[j] = tok

\* C1: the request of every createTask call contains html_notes if and only if
\* the draft's description is non-empty (so never for an empty description,
\* whatever the signature preference), and when html_notes is present and the
\* signature preference is true it contains the fixed signature text.
C1_HtmlNotesIffDescription ==
    \A k \in 1..Len(calls) :
        /\ (HasKey(calls[k].request, "html_notes")) <=> (DraftOf(k).description # <<>>)
        /\ (HasKey(calls[k].request, "html_notes") /\ signature)
             => OccursIn("Created via <a href=\"https://www.raycast.com/?ref=signatureAsana\">Raycast</a>",
                         calls[k].request.html_notes)

\* A call made for a draft with an empty description while the signature
\* preference is on: no html_notes were sent.
C1_Witness ==
    \E k \in 1..Len(calls) :
        /\ signature
        /\ DraftOf(k).description = <<>>
        /\ ~HasKey(calls[k].request, "html_notes")

\* The custom fields of a draft that carry a value, by their bare identifiers.
FilledGids(values) ==
    { RenderedGids(values.projects)[j] : j \in
        { j \in 1..Len(RenderedGids(values.projects)) :
            values.fields[FieldPrefix \o RenderedGids(values.projects)[j]] # <<>> } }

\* C2: the custom_fields of every request holds exactly the custom-field entries
\* with a non-empty value, each keyed by the bare field identifier (the input
\* key without its "field-" prefix) and carrying the entered value; distinct
\* identifiers never collapse to one key.
C2_CustomFieldsByBareId ==
    \A k \in 1..Len(calls) :
        /\ DOMAIN calls[k].request.custom_fields = FilledGids(DraftOf(k))
        /\ \A g \in FilledGids(DraftOf(k)) :
             calls[k].request.custom_fields[g] = DraftOf(k).fields[FieldPrefix \o g]

DigitValue(c) == CHOOSE d \in 0..9 : DigitChars[d + 1] = c

RECURSIVE ParseNumber(_)
ParseNumber(str) ==
    IF Len(str) = 0 THEN 0
    ELSE 10 * ParseNumber(SubSeq(str, 1, Len(str) - 1)) + DigitValue(str[Len(str)])

\* A string of the shape dddd-dd-dd that reads as the calendar day d.
IsIsoDayOf(str, d) ==
    /\ Len(str) = 10
    /\ str[5] = "-" /\ str[8] = "-"
    /\ ParseNumber(SubSeq(str, 1, 4)) = d.year
    /\ ParseNumber(SubSeq(str, 6, 7)) = d.month
    /\ ParseNumber(SubSeq(str, 9, 10)) = d.day

\* C3: in every request, projects is present iff the draft's project list is
\* non-empty and then equals it, assignee is present iff an assignee is set
\* (the empty "Unassigned" value is not set) and then equals it, and due_on is
\* present iff a due date is set and is then that calendar day as yyyy-MM-dd;
\* an absent field is omitted, not sent empty.
C3_OptionalKeys ==
    \A k \in 1..Len(calls) :
        /\ (HasKey(calls[k].request, "projects")) <=> (Len(DraftOf(k).projects) > 0)
        /\ HasKey(calls[k].request, "projects")
             => calls[k].request.projects = DraftOf(k).projects
        /\ (HasKey(calls[k].request, "assignee")) <=> (DraftOf(k).assignee # <<>>)
        /\ HasKey(calls[k].request, "assignee")
             => calls[k].request.assignee = DraftOf(k).assignee
        /\ (HasKey(calls[k].request, "due_on")) <=> (DraftOf(k).due_date # NoDate)
        /\ HasKey(calls[k].request, "due_on")
             => IsIsoDayOf(calls[k].request.due_on, DraftOf(k).due_date)

\* A call for a draft with a project, an assignee and a due date whose month,
\* day and year all need padding.
C3_Witness ==
    \E k \in 1..Len(calls) :
        /\ DraftOf(k).projects # <<>>
        /\ DraftOf(k).assignee # <<>>
        /\ DraftOf(k).due_date = [year |-> 987, month |-> 12, day |-> 31]
        /\ calls[k].request.due_on = <<"0", "9", "8", "7", "-", "1", "2", "-", "3", "1">>

Started(i) == sub[i].pc \in {"call", "succeeded", "failed"}

\* C4: a submission has made no createTask call before its request is sent and
\* exactly one from then on, also after the call has failed (no retry).
C4_ExactlyOneCall ==
    \A i \in Subs :
        /\ sub[i].pc \in {"idle", "show"} => Cardinality(CallsBy(i)) = 0
        /\ Started(i) => Cardinality(CallsBy(i)) = 1

\* A submission whose call failed, with its single call in the log.
C4_Witness ==
    \E i \in Subs : sub[i].pc = "failed" /\ Cardinality(CallsBy(i)) = 1

\* C5: no createTask call carries an empty workspace or an empty name, no
\* invocation of the submit handler holds values with an empty workspace or
\* name, a form with either empty cannot be submitted, and every request's
\* workspace and name are those of its draft.
C5_RequiredFields ==
    /\ \A k \in 1..Len(calls) :
        /\ calls[k].request.workspace # <<>>
        /\ calls[k].request.name # <<>>
        /\ calls[k].request.workspace = DraftOf(k).workspace
        /\ calls[k].request.name = DraftOf(k).name
    /\ \A i \in Subs :
        sub[i].pc # "idle" => sub[i].values.workspace # <<>> /\ sub[i].values.name # <<>>
    /\ (form.workspace = <<>> \/ form.name = <<>>)
         => ~ENABLED (\E i \in Subs : handleSubmit(i))

\* A call is in the log, and a later attempt with the name left empty was
\* rejected by validation.
C5_Witness ==
    /\ Len(calls) > 0
    /\ "name" \in errors
    /\ form.name = <<>>

\* C10: html_notes, whenever sent, is the opening body tag, the description,
\* then, only with the signature preference on, the separator "\n--\n" and the
\* signature markup, and the closing body tag.
C10_HtmlNotesValue ==
    \A k \in 1..Len(calls) :
        HasKey(calls[k].request, "html_notes") =>
            calls[k].request.html_notes =
                <<"<body>">> \o DraftOf(k).description
                \o (IF signature
                    THEN <<"\n--\n", "Created via <a href=\"https://www.raycast.com/?ref=signatureAsana\">Raycast</a>">>
                    ELSE <<>>)
                \o <<"</body>">>

\* html_notes sent with the signature preference on.
C10_Witness ==
    \E k \in 1..Len(calls) :
        signature /\ HasKey(calls[k].request, "html_notes")

(* ===================== properties of the submission ==================== *)

Succeeds(i) == sub[i].pc = "call" /\ sub'[i].pc = "succeeded"

Fails(i) == sub[i].pc = "call" /\ sub'[i].pc = "failed"

C6_Failed ==
    \A i \in Subs :
        sub[i].pc = "failed" =>
            /\ sub[i].error \in Errors
            /\ sub[i].toast.style = "Failure"
            /\ sub[i].toast.title = <<"Failed to create task">>
            /\ sub[i].toast.message = getErrorMessage(sub[i].error)
            /\ sub[i].toast.primaryAction = NoTask
            /\ sub[i].toast.secondaryAction = NoTask
            /\ sub[i].task = NoTask

C6_FailStep ==
    \A i \in Subs :
        /\ Fails(i) => form' = form /\ resets' = resets /\ errors' = errors
        /\ (sub[i].pc = "call" /\ sub'[i].pc # "call")
             => sub'[i].pc \in {"succeeded", "failed"}

\* C6: when the createTask call fails the handler still completes: the toast
\* ends in the failure style with the message of the error, the step leaves
\* every field of the form as it was (no reset), and neither follow-up action
\* is ever installed on that toast.
C6_FailureKeepsDraft == []C6_Failed /\ [][C6_FailStep]_vars

\* A failed submission whose draft, description included, is still in the form.
C6_Witness ==
    \E i \in Subs :
        /\ sub[i].pc = "failed"
        /\ form = sub[i].values
        /\ form.description # <<>>
        /\ sub[i].toast.message = <<"Invalid custom field">>

C7_Reset ==
    /\ resets = Cardinality({ i \in Subs : sub[i].pc = "succeeded" })
    /\ \A k \in 1..Len(calls) :
        /\ calls[k].request.name = DraftOf(k).name
        /\ (HasKey(calls[k].request, "html_notes")) <=> (DraftOf(k).description # <<>>)
        /\ (HasKey(calls[k].request, "due_on")) <=> (DraftOf(k).due_date # NoDate)

C7_ResetStep ==
    /\ \A i \in Subs :
        Succeeds(i) =>
            /\ form'.name = <<>>
            /\ form'.description = <<>>
            /\ form'.due_date = NoDate
            /\ focused' = "name"
            /\ resets' = resets + 1
            /\ calls' = calls
            /\ sub'[i].values = sub[i].values
    /\ resets' # resets => \E i \in Subs : Succeeds(i)

\* C7: the form is reset exactly by the steps in which a createTask call
\* succeeds: such a step empties name and description, unsets the due date and
\* focuses the name field, and it changes neither the call log nor the values
\* the submission was made with; no other step resets the form.
C7_ResetOnlyOnSuccess == []C7_Reset /\ [][C7_ResetStep]_vars

\* A succeeded submission made with a description and a due date, both in its
\* request, and the form blank with the focus on the name.
C7_Witness ==
    \E k \in 1..Len(calls) :
        /\ sub[calls[k].by].pc = "succeeded"
        /\ HasKey(calls[k].request, "html_notes")
        /\ HasKey(calls[k].request, "due_on")
        /\ form.name = <<>> /\ form.description = <<>> /\ form.due_date = NoDate
        /\ focused = "name"
        /\ resets = 1

C8_Styles ==
    \A i \in Subs :
        /\ sub[i].pc = "idle" => sub[i].toast.style = "None"
        /\ sub[i].pc \in {"show", "call"}
             => sub[i].toast.style = "Animated" /\ sub[i].toast.title = <<"Creating task">>
        /\ sub[i].pc = "succeeded" => sub[i].toast.style = "Success"
        /\ sub[i].pc = "failed" => sub[i].toast.style = "Failure"
        /\ sub[i].pc \in {"idle", "show", "call", "succeeded", "failed"}
        /\ CallsBy(i) # {} => sub[i].toast.shown

C8_Moves ==
    \A i \in Subs :
        /\ <<sub[i].pc, sub'[i].pc>> \in
              { <<"idle", "idle">>, <<"idle", "show">>, <<"show", "show">>,
                <<"show", "call">>, <<"call", "call">>, <<"call", "succeeded">>,
                <<"call", "failed">>, <<"succeeded", "succeeded">>,
                <<"failed", "failed">> }
        /\ (Len(calls') > Len(calls) /\ calls'[Len(calls')].by = i)
             => /\ sub[i].pc = "show"
                /\ sub[i].toast.style = "Animated"
                /\ sub'[i].toast.shown

\* C8: a submission only moves from not-called to in-flight to exactly one of
\* succeeded and failed, which are final; the toast is the animated "Creating
\* task" toast, shown, when the call is issued, and once the call has resolved
\* its style is Success or Failure accordingly, never left animated.
C8_Lifecycle == []C8_Styles /\ [][C8_Moves]_vars

\* One submission succeeded and another failed, each toast in its own style.
C8_Witness ==
    \E i, j \in Subs :
        /\ sub[i].pc = "succeeded" /\ sub[i].toast.style = "Success"
        /\ sub[j].pc = "failed" /\ sub[j].toast.style = "Failure"

C9_Own ==
    /\ \A k \in 1..Len(calls) :
        /\ calls[k].request.workspace = DraftOf(k).workspace
        /\ calls[k].request.name = DraftOf(k).name
        /\ (HasKey(calls[k].request, "html_notes")) <=> (DraftOf(k).description # <<>>)
        /\ HasKey(calls[k].request, "html_notes")
             => SubSeq(calls[k].request.html_notes, 2, 1 + Len(DraftOf(k).description))
                  = DraftOf(k).description
        /\ (HasKey(calls[k].request, "due_on")) <=> (DraftOf(k).due_date # NoDate)
    /\ \A i \in Subs :
        sub[i].pc = "succeeded" =>
            /\ \E k \in CallsBy(i) : sub[i].task.gid = <<DigitChars[k + 1]>>
            /\ sub[i].toast.primaryAction = sub[i].task
            /\ sub[i].toast.secondaryAction = sub[i].task
            /\ sub[i].toast.title = <<"Copied to clipboard">>
                 => sub[i].toast.message = sub[i].task.permalink_url
    /\ \A i, j \in Subs :
        (i # j /\ sub[i].pc = "succeeded" /\ sub[j].pc = "succeeded")
            => sub[i].task # sub[j].task

C9_Apart ==
    /\ \A i \in Subs : sub[i].pc # "idle" => sub'[i].values = sub[i].values
    /\ SubSeq(calls', 1, Len(calls)) = calls
    /\ \A i, j \in Subs : (i # j /\ sub'[i] # sub[i]) => sub'[j] = sub[j]
    /\ \A i \in Subs :
        sub[i].pc \in {"succeeded", "failed"} =>
            /\ sub'[i].task = sub[i].task
            /\ sub'[i].error = sub[i].error
            /\ sub'[i].toast.style = sub[i].toast.style
            /\ sub'[i].toast.primaryAction = sub[i].toast.primaryAction
            /\ sub'[i].toast.secondaryAction = sub[i].toast.secondaryAction

\* C9: with several submissions under way, in every interleaving each request
\* is built from the values its own invocation was given, each toast's
\* follow-up actions hold the task its own call returned, and no step of one
\* submission (its completion, failure or form reset) or of the user changes
\* the values, the request, the result or the toast of another.
C9_Independent == []C9_Own /\ [][C9_Apart]_vars

\* Two submissions made with different values, their calls issued in the
\* opposite order, the first succeeded (resetting the form) and the second
\* still awaiting its call.
C9_Witness ==
    /\ Len(calls) = 2
    /\ calls[1].by = 2 /\ calls[2].by = 1
    /\ sub[1].values # sub[2].values
    /\ calls[1].request # calls[2].request
    /\ sub[1].pc = "succeeded"
    /\ sub[2].pc = "call"

====
